---- MODULE Spec2Model ----
(***************************************************************************)
(* Model of the APKMirror listing-resolution engine:                       *)
(*   src/scrapers/apkmirror_scraper.py  (APKMirrorScraper)                 *)
(*   src/scrapers/base_scraper.py       (APKResult, BaseAPKScraper)        *)
(*   src/main.py                        (the scraping loop of main)        *)
(* Strings are sequences of one-character strings, so that split, strip,   *)
(* join, lower and the two regular expressions are computed, not assumed.  *)
(***************************************************************************)
EXTENDS Integers, Sequences, FiniteSets, TLC

VARIABLES
    pc,                 \* position of the single thread of control
    qi,                 \* number of queries main has started (main.py:291)
    max_results,        \* BaseAPKScraper.max_results
    apk_counter,        \* APKMirrorScraper.apk_counter (the cursor)
    cached_search,      \* APKMirrorScraper.cached_search, as its list of appRow blocks
    captured_results,   \* the dict main threads through search_and_download
    all_apk_downloads,  \* main's output list (references to registry entries)
    result,             \* local of search_and_download: None or an APKResult
    existing_result,    \* local: None or a reference to a registry entry
    download_link,      \* local: None or a URL
    retval,             \* first component of the returned tuple
    net_log,            \* waits and requests issued in the current loop iteration
    visited,            \* history: listing indices whose candidate reached line 330
    chained,            \* history: listing indices handed to get_download_link
    listing,            \* history: outcome of this call's listing request
    inserted,           \* history: keys inserted by this call
    completed,          \* history: keys whose fallback this call set
    chain_answer,       \* history: what the site answered to the chain of this iteration
    listing_requests,   \* history: listing pages requested by this call
    typed,              \* normalizer study: the title under study
    npc,                \* normalizer study: its position
    norm1,              \* normalizer study: the canonical key of typed
    norm2,              \* normalizer study: the canonical key of norm1
    ver,                \* normalizer study: the version parsed from typed
    dl_path,            \* downloader study: which download loop of main.py runs
    apk_data,           \* downloader study: the entries handed to the loop
    dl_i,               \* downloader study: entries the loop has dealt with
    dl_log,             \* downloader study: history, the attempts made per entry
    seed_queries,       \* snowballer study: argument of QuerySnowballer.expand
    max_depth,          \* QuerySnowballer.max_depth
    max_queries,        \* QuerySnowballer.max_queries
    sb_visited,         \* local `visited` of expand
    queue,              \* local `queue` of expand: (query, depth) pairs
    level_left,         \* iterations left of the for loop over the current level
    last_run_size,      \* local `last_run_size` of expand
    sb_pc,              \* position inside expand
    expanded,           \* the list expand returned
    asked,              \* history: (query, depth) pairs passed to the provider
    failed,             \* history: queries whose provider call raised
    cl_pc,              \* cleaner study: position in main's cleanup step
    is_dir,             \* whether the download directory exists
    directory,          \* the files of the download directory and what they hold
    apkm_files,         \* local `apkm_files` of Cleaner.process_directory
    other_files,        \* local `other_files` of Cleaner.process_directory
    temp_dirs,          \* the _temp_<name> folders inside the directory
    outcomes            \* history: how the extraction of each container ended

\* the state of the scraping run
runVars == << pc, qi, max_results, apk_counter, cached_search, captured_results,
              all_apk_downloads, result, existing_result, download_link, retval,
              net_log, visited, chained, listing, inserted, completed,
              chain_answer, listing_requests >>

\* the state of the study of the title functions
normVars == << typed, npc, norm1, norm2, ver >>

\* the state of the study of the two download loops
dlVars == << dl_path, apk_data, dl_i, dl_log >>

\* the state of the study of QuerySnowballer.expand
sbVars == << seed_queries, max_depth, max_queries, sb_visited, queue, level_left,
             last_run_size, sb_pc, expanded, asked, failed >>

\* the state of the study of the Cleaner
clVars == << cl_pc, is_dir, directory, apkm_files, other_files, temp_dirs, outcomes >>

vars == << runVars, normVars, dlVars, sbVars, clVars >>

\* what each part of the model leaves alone
exceptRun == << normVars, dlVars, sbVars, clVars >>
exceptNorm == << runVars, dlVars, sbVars, clVars >>
exceptDl == << runVars, normVars, sbVars, clVars >>
exceptSb == << runVars, normVars, dlVars, clVars >>
exceptCl == << runVars, normVars, dlVars, sbVars >>

----------------------------------------------------------------------------
(* Bounds of the model *)

NumQueries == 2     \* queries main iterates over
MaxRows == 2        \* appRow blocks on a listing page
MaxBudget == 2      \* largest max_results the scraper is constructed with

----------------------------------------------------------------------------
(* Python values *)

None == "None"              \* None where the other values are strings
NoAttr == "AttributeError"  \* an attribute the object does not have
NoResult == << >>           \* Optional[APKResult]: None
Some(x) == << x >>          \* Optional[APKResult]: an object

----------------------------------------------------------------------------
(* Characters and strings *)

Digits == {"0", "1", "2", "3", "4", "5", "6", "7", "8", "9"}
UpperSeq == <<"A","B","C","D","E","F","G","H","I","J","K","L","M",
              "N","O","P","Q","R","S","T","U","V","W","X","Y","Z">>
LowerSeq == <<"a","b","c","d","e","f","g","h","i","j","k","l","m",
              "n","o","p","q","r","s","t","u","v","w","x","y","z">>
Upper == {UpperSeq[i] : i \in 1..Len(UpperSeq)}
Lower == {LowerSeq[i] : i \in 1..Len(LowerSeq)}
Whitespace == {" "}

\* str.lower on one character
LowerChar(c) ==
    IF c \in Upper
    THEN LowerSeq[CHOOSE i \in 1..Len(UpperSeq) : UpperSeq[i] = c]
    ELSE c

\* str.lower
ToLower(s) == [i \in 1..Len(s) |-> LowerChar(s[i])]

RECURSIVE SplitAcc(_, _, _, _)
SplitAcc(s, i, cur, acc) ==
    IF i > Len(s)
    THEN IF cur = << >> THEN acc ELSE Append(acc, cur)
    ELSE IF s[i] \in Whitespace
         THEN SplitAcc(s, i + 1, << >>, IF cur = << >> THEN acc ELSE Append(acc, cur))
         ELSE SplitAcc(s, i + 1, Append(cur, s[i]), acc)

\* str.split() with no separator: the maximal runs of non-whitespace
Split(s) == SplitAcc(s, 1, << >>, << >>)

RECURSIVE Join(_)
\* " ".join(parts)
Join(parts) ==
    IF parts = << >> THEN << >>
    ELSE IF Len(parts) = 1 THEN parts[1]
    ELSE parts[1] \o <<" ">> \o Join(Tail(parts))

RECURSIVE Strip(_)
\* str.strip()
Strip(s) ==
    IF s = << >> THEN s
    ELSE IF s[1] \in Whitespace THEN Strip(Tail(s))
    ELSE IF s[Len(s)] \in Whitespace THEN Strip(SubSeq(s, 1, Len(s) - 1))
    ELSE s

IsAlnum(c) == c \in Digits \cup Upper \cup Lower
IsVersionBody(c) == IsAlnum(c) \/ c \in {".", "-"}

\* re.fullmatch(r"[A-Za-z0-9][A-Za-z0-9.\-]*\d[A-Za-z0-9.\-]*", tok)
LooksLikeVersion(tok) ==
    /\ Len(tok) >= 2
    /\ IsAlnum(tok[1])
    /\ \A i \in 2..Len(tok) : IsVersionBody(tok[i])
    /\ \E i \in 2..Len(tok) : tok[i] \in Digits

\* parts[-1] of an empty list raises IndexError
ExtractBaseNameRaises(title) == Split(Strip(title)) = << >>

\* APKMirrorScraper._extract_base_name, where it does not raise
_extract_base_name(title) ==
    LET parts == Split(Strip(title)) IN
    IF LooksLikeVersion(parts[Len(parts)])
    THEN Join(SubSeq(parts, 1, Len(parts) - 1))
    ELSE Join(parts)

\* the canonical key of line 330
BaseName(title) == ToLower(_extract_base_name(title))

----------------------------------------------------------------------------
(* What the site can answer *)

Tracker12 == <<"T","r","a","c","k","e","r"," ","1",".","2">>
Tracker20 == <<"T","r","a","c","k","e","r"," ","2",".","0">>
Maps == <<"M","a","p","s">>
Blank == <<" ">>
Titles == {Tracker12, Tracker20, Maps}

\* one div.appRow: has it an h5.appRowTitle, has that an anchor, and the h5's text
Row(t) == [title_elem |-> TRUE, link_elem |-> TRUE, text |-> t]
NoTitleRow == [title_elem |-> FALSE, link_elem |-> FALSE, text |-> Blank]
NoAnchorRow == [title_elem |-> TRUE, link_elem |-> FALSE, text |-> Maps]
BlankTitleRow == [title_elem |-> TRUE, link_elem |-> TRUE, text |-> Blank]
Rows == {Row(t) : t \in Titles} \cup {NoTitleRow, NoAnchorRow, BlankTitleRow}

\* the appRow blocks of one listing page, in document order
Listings == UNION {[1..n -> Rows] : n \in 0..MaxRows}

URLs == {"A", "B"}

\* the answers of the site to the requests of one resolution chain: the detail
\* page, the detail page as get_variant_link requests it again, the variant page
\* and the download page
AllChainAnswers ==
    [detail : {"error", "button", "jump_button", "no_button"},
     detail_again : {"error", "variant", "no_variant"},
     variant : {"error", "button", "no_button"},
     download : {"error", "link", "no_link"},
     url : URLs]

\* a chain that takes the variant hop whatever the detail page shows
VariantHopAlways(a) == a.detail # "error"

\* lines 231-239: the detail page has a downloadButton whose href starts with
\* /apk/ and has no #downloads ("jump_button" is one that only jumps in-page)
QualifyingButton(a) == a.detail = "button"

\* line 241: no qualifying button, so the variant link is looked for
VariantHop(a) == a.detail \in {"jump_button", "no_button"}
VariantPageAsked(a) == VariantHop(a) /\ a.detail_again = "variant"
DownloadPageAsked(a) ==
    \/ QualifyingButton(a)
    \/ VariantPageAsked(a) /\ a.variant = "button"

\* one representative per behaviour: answers for pages never requested are fixed
ChainAnswers ==
    {a \in AllChainAnswers :
        /\ ~VariantHop(a) => a.detail_again = "error"
        /\ ~VariantPageAsked(a) => a.variant = "error"
        /\ ~DownloadPageAsked(a) => a.download = "error"
        /\ ~(DownloadPageAsked(a) /\ a.download = "link") => a.url = "A"}

----------------------------------------------------------------------------
(* PageParser *)

\* a matcher that lets a single digit group pass: r"\d+(?:\.\d+)*"
IsStrictVersionOneGroup(tok) ==
    /\ Len(tok) >= 1
    /\ \A k \in 1..Len(tok) : tok[k] \in Digits \cup {"."}
    /\ tok[1] \in Digits /\ tok[Len(tok)] \in Digits
    /\ \A k \in 1..(Len(tok) - 1) : ~(tok[k] = "." /\ tok[k + 1] = ".")

\* re.fullmatch(r"\d+(?:\.\d+)+", tok)
IsStrictVersion(tok) ==
    /\ Len(tok) >= 3
    /\ \A k \in 1..Len(tok) : tok[k] \in Digits \cup {"."}
    /\ tok[1] \in Digits /\ tok[Len(tok)] \in Digits
    /\ \A k \in 1..(Len(tok) - 1) : ~(tok[k] = "." /\ tok[k + 1] = ".")
    /\ \E k \in 1..Len(tok) : tok[k] = "."

\* APKMirrorScraper._parse_app_row
_parse_app_row(app_row) ==
    IF ~app_row.title_elem THEN NoResult
    ELSE LET title == Strip(app_row.text)
             parts == Split(title)
         IN  IF ~app_row.link_elem THEN NoResult
             ELSE IF parts = << >> THEN NoResult  \* IndexError, caught at line 164
             ELSE Some([title |-> title,
                        version |-> IF IsStrictVersion(parts[Len(parts)])
                                    THEN parts[Len(parts)] ELSE << >>,
                        direct_download_url |-> None,
                        fallback_download_url |-> NoAttr])

\* a bounds test that leaves out the last row
RowAvailableShort(counter, app_rows) == counter + 1 < Len(app_rows)

\* the test of line 109, negated
RowAvailable(counter, app_rows) == counter < Len(app_rows)

\* APKMirrorScraper._parse_search_results with apk_counter = counter
_parse_search_results(html, counter) ==
    IF ~RowAvailable(counter, html) THEN NoResult
    ELSE _parse_app_row(html[counter + 1])

----------------------------------------------------------------------------
(* ResolutionChain *)

\* the request of line 269, named by the button whose target it follows
DownloadRequest(a) ==
    IF QualifyingButton(a) THEN "download:detail_button"
    ELSE "download:variant_button"

Requests == {"listing", "detail", "variant",
             "download:detail_button", "download:variant_button"}

\* a last hop that requests the download page without waiting
FinalHopNoWait(a, log) ==
    LET log2 == log \o <<DownloadRequest(a)>> IN
    IF a.download = "link" THEN [url |-> a.url, log |-> log2, exc |-> FALSE]
    ELSE [url |-> None, log |-> log2, exc |-> a.download = "error"]

\* lines 263-293: the download page and its terminal link
FinalHop(a, log) ==
    LET log2 == log \o <<"wait", DownloadRequest(a)>> IN
    IF a.download = "link" THEN [url |-> a.url, log |-> log2, exc |-> FALSE]
    ELSE [url |-> None, log |-> log2, exc |-> a.download = "error"]

\* the body of the try of get_download_link (lines 218-293) under the answers
\* a: the value it returns, the waits and requests it issues, and whether an
\* exception leaves it (raise_for_status, or scraper.get(None))
ChainWalk(a) ==
    LET log1 == <<"wait", "detail">> IN
    IF a.detail = "error" THEN [url |-> None, log |-> log1, exc |-> TRUE]
    ELSE IF ~VariantHop(a) THEN FinalHop(a, log1)
    ELSE LET log2 == log1 \o <<"wait", "detail">> IN   \* get_variant_link
         IF a.detail_again = "error" THEN [url |-> None, log |-> log2, exc |-> TRUE]
         ELSE IF a.detail_again = "no_variant"
              \* apk_url is None: scraper.get(None) raises before any request
              THEN [url |-> None, log |-> log2 \o <<"wait">>, exc |-> TRUE]
         ELSE LET log3 == log2 \o <<"wait", "variant">> IN
              IF a.variant = "error" THEN [url |-> None, log |-> log3, exc |-> TRUE]
              ELSE IF a.variant = "button" THEN FinalHop(a, log3)
              ELSE [url |-> None, log |-> log3, exc |-> FALSE]

\* a get_download_link without its except clause
get_download_link_uncaught(a) ==
    LET w == ChainWalk(a) IN
    [url |-> w.url, log |-> w.log, raised |-> w.exc]

\* APKMirrorScraper.get_download_link under the answers a: lines 295-297 turn
\* every exception of the walk into None
get_download_link(a) ==
    LET w == ChainWalk(a) IN
    [url |-> IF w.exc THEN None ELSE w.url, log |-> w.log, raised |-> FALSE]

----------------------------------------------------------------------------
(* ResolutionOrchestrator: APKMirrorScraper.search_and_download, and main *)

\* an off-by-one budget test
BudgetReachedLate(counter, budget) == counter > budget

\* the test of line 317
BudgetReached(counter, budget) == counter >= budget

\* a search that requests the listing on every call
ListingFetchAlways(counter) == TRUE

\* the test of line 69
ListingFetchNeeded(counter) == counter = 0

\* truthiness of an Optional[str] attribute
Truthy(v) == v # None /\ v # ""

\* dict.get(base_name): None, or a reference to the stored object
Lookup(registry, base_name) ==
    IF base_name \in DOMAIN registry THEN {base_name} ELSE {}

\* reading existing_result.fallback_download_url at line 333 raises
\* AttributeError when the object was never given that attribute
FallbackReadRaises(registry, existing) ==
    \E k \in existing : registry[k].fallback_download_url = NoAttr

\* the test of line 333, where it does not raise
IsDuplicate(registry, existing) ==
    \E k \in existing : Truthy(registry[k].fallback_download_url)

\* the branch lines 341-353 take
MergeOutcome(link, existing) ==
    IF link = None THEN "unresolved"
    ELSE IF existing = {} THEN "inserted"
    ELSE "complete"

\* a search that answers a failed request from the listing it still holds
SearchFromCache(html, counter) == _parse_search_results(html, counter)

\* lines 78-80: any exception of the listing request makes search return None
SearchFailed(html, counter) == NoResult

\* a store that starts the registry afresh with the new entry
StoreAlone(registry, base_name, entry) == (base_name :> entry)

\* line 347: captured_results[base_name] = result, reached only when the
\* lookup of line 332 found nothing under base_name
StoreEntry(registry, base_name, entry) == registry @@ (base_name :> entry)

\* a loop that also stops after inserting a primary
LoopEndsOnInsert(outcome) == outcome \in {"complete", "inserted"}

\* the branches that leave the while loop (the break of line 353)
LoopEnds(outcome) == outcome = "complete"

\* the cursor after the increments of lines 334, 342 and 348
Advance(counter) == counter + 1

\* the cursor as lines 319, 327 and 355 leave it
ResetCursor(counter) == 0

\* an exit that hands back the entry this call inserted
ReturnInserted(this_call) == this_call

\* the value the exits of lines 320 and 328 return
AbsentReturn(this_call) == {}

\* main builds the scraper with the default max_results (base_scraper.py:65);
\* the constructor argument ranges here over 0..MaxBudget so that the budget
\* exit lies within the bounds of the model
RunInit ==
    /\ pc = "main"
    /\ qi = 0
    /\ max_results \in 0..MaxBudget
    /\ apk_counter = 0
    /\ cached_search = << >>
    /\ captured_results = [k \in {} |-> None]
    /\ all_apk_downloads = << >>
    /\ result = NoResult
    /\ existing_result = {}
    /\ download_link = None
    /\ retval = {}
    /\ net_log = << >>
    /\ visited = << >>
    /\ chained = << >>
    /\ listing = "none"
    /\ inserted = {}
    /\ completed = {}
    /\ chain_answer = {}
    /\ listing_requests = 0

\* the title functions idle while the scraping run is studied
NormIdle ==
    /\ typed = << >>
    /\ npc = "idle"
    /\ norm1 = << >>
    /\ norm2 = << >>
    /\ ver = << >>

\* the download loops idle
DlIdle ==
    /\ dl_path = "idle"
    /\ apk_data = << >>
    /\ dl_i = 0
    /\ dl_log = << >>

\* expand has not been called
SbIdle ==
    /\ seed_queries = << >>
    /\ max_depth = 0
    /\ max_queries = 0
    /\ sb_visited = {}
    /\ queue = << >>
    /\ level_left = 0
    /\ last_run_size = 0
    /\ sb_pc = "idle"
    /\ expanded = << >>
    /\ asked = << >>
    /\ failed = {}

\* the cleanup step has not been asked for
ClIdle ==
    /\ cl_pc = "idle"
    /\ is_dir = FALSE
    /\ directory = [f \in {} |-> [holds |-> "", of |-> ""]]
    /\ apkm_files = << >>
    /\ other_files = << >>
    /\ temp_dirs = {}
    /\ outcomes = [f \in {} |-> ""]

Init == RunInit /\ NormIdle /\ DlIdle /\ SbIdle /\ ClIdle

\* main.py:291-294: the next query is handed to search_and_download, or the
\* loop over the queries ends
MainNext ==
    /\ pc = "main"
    /\ IF qi < NumQueries
       THEN /\ qi' = qi + 1
            /\ pc' = "loop"
            /\ result' = NoResult
            /\ existing_result' = {}
            /\ download_link' = None
            /\ retval' = {}
            /\ net_log' = << >>
            /\ visited' = << >>
            /\ chained' = << >>
            /\ listing' = "none"
            /\ inserted' = {}
            /\ completed' = {}
            /\ chain_answer' = {}
            /\ listing_requests' = 0
       ELSE /\ pc' = "done"
            /\ UNCHANGED << qi, result, existing_result, download_link, retval,
                            net_log, visited, chained, listing, inserted, completed,
                            chain_answer, listing_requests >>
    /\ UNCHANGED << max_results, apk_counter, cached_search, captured_results,
                    all_apk_downloads >>
    /\ UNCHANGED exceptRun

\* lines 316-320: the top of the while loop
CheckBudget ==
    /\ pc = "loop"
    /\ net_log' = << >>
    /\ chain_answer' = {}
    /\ IF BudgetReached(apk_counter, max_results)
       THEN /\ retval' = AbsentReturn(inserted)
            /\ pc' = "exit"
       ELSE /\ pc' = "search"
            /\ UNCHANGED retval
    /\ UNCHANGED << qi, max_results, apk_counter, cached_search, captured_results,
                    all_apk_downloads, result, existing_result, download_link,
                    visited, chained, listing, inserted, completed,
                    listing_requests >>
    /\ UNCHANGED exceptRun

\* line 322 and search (lines 49-80): the listing is requested only while the
\* cursor is 0, and any exception of the request yields None
Search ==
    /\ pc = "search"
    /\ pc' = "searched"
    /\ IF ListingFetchNeeded(apk_counter)
       THEN /\ net_log' = <<"wait", "listing">>
            /\ listing_requests' = listing_requests + 1
            /\ \/ /\ listing' = "failed"
                  /\ result' = SearchFailed(cached_search, apk_counter)
                  /\ UNCHANGED cached_search
               \/ \E page \in Listings :
                  /\ listing' = "ok"
                  /\ cached_search' = page
                  /\ result' = _parse_search_results(page, apk_counter)
       ELSE /\ net_log' = <<"wait">>
            /\ result' = _parse_search_results(cached_search, apk_counter)
            /\ UNCHANGED << cached_search, listing, listing_requests >>
    /\ UNCHANGED << qi, max_results, apk_counter, captured_results,
                    all_apk_downloads, existing_result, download_link, retval,
                    visited, chained, inserted, completed, chain_answer >>
    /\ UNCHANGED exceptRun

\* lines 324-336: no candidate ends the call; otherwise the canonical key is
\* looked up and a fallback-complete entry makes the candidate a duplicate
CheckRegistry ==
    /\ pc = "searched"
    /\ IF result = NoResult
       THEN /\ retval' = AbsentReturn(inserted)
            /\ pc' = "exit"
            /\ UNCHANGED << apk_counter, existing_result, visited >>
       ELSE /\ visited' = Append(visited, apk_counter)
            /\ UNCHANGED retval
            /\ IF ExtractBaseNameRaises(result[1].title)
               THEN /\ pc' = "crashed"     \* IndexError at line 330
                    /\ UNCHANGED << apk_counter, existing_result >>
               ELSE LET existing == Lookup(captured_results, BaseName(result[1].title)) IN
                    /\ existing_result' = existing
                    /\ IF FallbackReadRaises(captured_results, existing)
                       THEN /\ pc' = "crashed"     \* AttributeError at line 333
                            /\ UNCHANGED apk_counter
                       ELSE IF IsDuplicate(captured_results, existing)
                       THEN /\ apk_counter' = Advance(apk_counter)
                            /\ pc' = "loop"
                       ELSE /\ pc' = "chain"
                            /\ UNCHANGED apk_counter
    /\ UNCHANGED << qi, max_results, cached_search, captured_results,
                    all_apk_downloads, result, download_link, net_log, chained,
                    listing, inserted, completed, chain_answer, listing_requests >>
    /\ UNCHANGED exceptRun

\* line 339: the resolution chain runs on the candidate
ResolveLink ==
    /\ pc = "chain"
    /\ \E a \in ChainAnswers :
          LET out == get_download_link(a) IN
          /\ chain_answer' = {a}
          /\ net_log' = net_log \o out.log
          /\ IF out.raised
             THEN /\ pc' = "crashed"     \* an exception leaves get_download_link
                  /\ UNCHANGED download_link
             ELSE /\ pc' = "merge"
                  /\ download_link' = out.url
    /\ chained' = Append(chained, apk_counter)
    /\ UNCHANGED << qi, max_results, apk_counter, cached_search, captured_results,
                    all_apk_downloads, result, existing_result, retval, visited,
                    listing, inserted, completed, listing_requests >>
    /\ UNCHANGED exceptRun

\* lines 341-353: unresolved, inserted as primary, or fallback set and break
Merge ==
    /\ pc = "merge"
    /\ LET outcome == MergeOutcome(download_link, existing_result)
           base_name == BaseName(result[1].title)
       IN
       /\ IF outcome = "inserted"
          THEN /\ captured_results' =
                      StoreEntry(captured_results, base_name,
                                 [result[1] EXCEPT !.direct_download_url = download_link])
               /\ inserted' = inserted \cup {base_name}
               /\ UNCHANGED completed
          ELSE IF outcome = "complete"
          THEN /\ captured_results' =
                      [captured_results EXCEPT ![base_name].fallback_download_url = download_link]
               /\ completed' = completed \cup {base_name}
               /\ UNCHANGED inserted
          ELSE UNCHANGED << captured_results, inserted, completed >>
       /\ IF LoopEnds(outcome)
          THEN /\ retval' = existing_result
               /\ pc' = "exit"
               /\ UNCHANGED apk_counter
          ELSE /\ apk_counter' = Advance(apk_counter)
               /\ pc' = "loop"
               /\ UNCHANGED retval
    /\ UNCHANGED << qi, max_results, cached_search, all_apk_downloads, result,
                    existing_result, download_link, net_log, visited, chained,
                    listing, chain_answer, listing_requests >>
    /\ UNCHANGED exceptRun

\* lines 319-320, 327-328 and 355-356: the cursor is reset and the call returns
Return ==
    /\ pc = "exit"
    /\ apk_counter' = ResetCursor(apk_counter)
    /\ pc' = "returned"
    /\ UNCHANGED << qi, max_results, cached_search, captured_results,
                    all_apk_downloads, result, existing_result, download_link,
                    retval, net_log, visited, chained, listing, inserted, completed,
                    chain_answer, listing_requests >>
    /\ UNCHANGED exceptRun

\* main.py:292-296: the returned entry, if any, is appended to the output
MainReceive ==
    /\ pc = "returned"
    /\ all_apk_downloads' =
          IF retval = {} THEN all_apk_downloads
          ELSE Append(all_apk_downloads, CHOOSE k \in retval : TRUE)
    /\ pc' = "main"
    /\ UNCHANGED << qi, max_results, apk_counter, cached_search, captured_results,
                    result, existing_result, download_link, retval, net_log,
                    visited, chained, listing, inserted, completed, chain_answer,
                    listing_requests >>
    /\ UNCHANGED exceptRun

Next ==
    \/ MainNext
    \/ CheckBudget
    \/ Search
    \/ CheckRegistry
    \/ ResolveLink
    \/ Merge
    \/ Return
    \/ MainReceive

Spec == Init /\ [][Next]_vars

\* the interpreter always takes the next step of a sequential program
FairSpec == Spec /\ WF_vars(Next)

----------------------------------------------------------------------------
(* The title functions on their own: NameNormalizer and version extraction *)

MaxTitleLen == 5    \* longest title typed character by character

\* characters titles are typed from: a capital, a small letter, a digit, the
\* dot, the hyphen and the blank
Alphabet == {"A", "b", "1", ".", "-", " "}

\* "Foo Bar 6.4.2", "App Pro-2", "Foo Bar Pro", "App 2", "App 6.4.2",
\* "App Pro", "App 12", "App 1.0 2.0"
FooBar642 == <<"F","o","o"," ","B","a","r"," ","6",".","4",".","2">>
AppPro2 == <<"A","p","p"," ","P","r","o","-","2">>
FooBarPro == <<"F","o","o"," ","B","a","r"," ","P","r","o">>
App2 == <<"A","p","p"," ","2">>
App642 == <<"A","p","p"," ","6",".","4",".","2">>
AppPro == <<"A","p","p"," ","P","r","o">>
App12 == <<"A","p","p"," ","1","2">>
App1020 == <<"A","p","p"," ","1",".","0"," ","2",".","0">>
ExampleTitles == {FooBar642, AppPro2, FooBarPro, App2, App642, AppPro, App12, App1020}

\* the version _parse_app_row takes from a stripped title (lines 146-150):
\* its last word, or None
VersionOf(stripped) ==
    LET parts == Split(Strip(stripped)) IN
    IF IsStrictVersion(parts[Len(parts)]) THEN parts[Len(parts)] ELSE << >>

\* the run stands still while the title functions are studied
NormInit ==
    /\ RunInit
    /\ max_results = 0
    /\ DlIdle
    /\ SbIdle
    /\ ClIdle
    /\ typed \in ExampleTitles \cup {<< >>}
    /\ npc = "typing"
    /\ norm1 = << >>
    /\ norm2 = << >>
    /\ ver = << >>

\* the text of an h5.appRowTitle grows by one character
TypeChar ==
    /\ npc = "typing"
    /\ Len(typed) < MaxTitleLen
    /\ \E c \in Alphabet : typed' = Append(typed, c)
    /\ UNCHANGED << npc, norm1, norm2, ver >>
    /\ UNCHANGED exceptNorm

\* lines 138-150 and 330: the title is the stripped text, its version is read
\* from its last word and its canonical key is computed; a title without
\* words raises IndexError
Normalize ==
    /\ npc = "typing"
    /\ LET stripped == Strip(typed) IN
       IF ExtractBaseNameRaises(stripped)
       THEN /\ npc' = "raised"
            /\ UNCHANGED << norm1, ver >>
       ELSE /\ npc' = "normalized"
            /\ norm1' = BaseName(stripped)
            /\ ver' = VersionOf(stripped)
    /\ UNCHANGED << typed, norm2 >>
    /\ UNCHANGED exceptNorm

\* lines 82-94 and 330 applied to a canonical key
Renormalize ==
    /\ npc = "normalized"
    /\ IF ExtractBaseNameRaises(norm1)
       THEN /\ npc' = "raised_again"
            /\ UNCHANGED norm2
       ELSE /\ npc' = "renormalized"
            /\ norm2' = BaseName(norm1)
    /\ UNCHANGED << typed, norm1, ver >>
    /\ UNCHANGED exceptNorm

NormNext ==
    \/ TypeChar
    \/ Normalize
    \/ Renormalize

NormSpec == NormInit /\ [][NormNext]_vars

----------------------------------------------------------------------------
(* Properties *)

TrackerKey == <<"t","r","a","c","k","e","r">>

Min(a, b) == IF a <= b THEN a ELSE b

\* No entry ever carries a fallback URL and no call ever hands back an entry:
\* the read of line 333 raises before line 352 can run on any entry.
FallbackNeverSet ==
    /\ \A k \in DOMAIN captured_results :
          captured_results[k].fallback_download_url = NoAttr
    /\ completed = {}
    /\ retval = {}
    /\ all_apk_downloads = << >>

\* the number of candidate rows of the listing this call works on
NumCandidates == IF listing = "ok" THEN Len(cached_search) ELSE 0

\* C1: one call of search_and_download processes at most min(N, max_results)
\* candidates of a listing with N rows, whatever happens to each candidate.
C1_VisitsAtMostMin == Len(visited) <= Min(NumCandidates, max_results)

\* C1 witness: a call over a listing longer than the budget has returned after
\* processing exactly max_results candidates.
C1_Witness ==
    /\ pc = "returned"
    /\ NumCandidates > max_results
    /\ max_results >= 1
    /\ Len(visited) = max_results

\* C2: every call of search_and_download eventually returns, whatever the
\* site answers.
C2_EveryCallReturns == (pc = "loop") ~> (pc = "returned")

\* C3: for one key, the first resolution inserts primary = u1, the second
\* candidate of that key is resolved and sets fallback = u2 (or is unresolved),
\* and a later one is a duplicate: a candidate whose key has an entry is never
\* an error, and after it the entry is complete unless it was unresolved.
C3_SameKeyMerges ==
    \A k \in DOMAIN captured_results :
        /\ captured_results[k].direct_download_url \in URLs
        /\ (k \in existing_result /\ pc \notin {"chain", "merge"}) =>
              \/ captured_results[k].fallback_download_url \in URLs
              \/ (download_link = None /\ pc # "crashed")

\* the scenario of C5: first query, empty registry before it, listing rows
\* "Tracker 1.2" then "Tracker 2.0", the first resolved to A, and the second,
\* where the chain ran on it, resolved to B
TrackerScenario ==
    /\ qi = 1
    /\ listing = "ok"
    /\ Len(cached_search) >= 2
    /\ cached_search[1] = Row(Tracker12)
    /\ cached_search[2] = Row(Tracker20)
    /\ max_results >= 2
    /\ TrackerKey \in DOMAIN captured_results
    /\ captured_results[TrackerKey].direct_download_url = "A"
    /\ Len(chained) >= 2 => download_link = "B"

\* C5: in the Tracker scenario the call ends by returning the single entry
\* stored under "tracker", with primary = A and fallback = B.
C5_TrackerEndToEnd ==
    (TrackerScenario /\ pc \in {"returned", "crashed"}) =>
        /\ pc = "returned"
        /\ retval = {TrackerKey}
        /\ DOMAIN captured_results = {TrackerKey}
        /\ captured_results[TrackerKey].fallback_download_url = "B"

\* C6: the cursor counts the processed candidates: between iterations and when
\* the loop is left (before the reset) it equals the number of candidates
\* processed so far, whatever their outcome.
C6_CursorCountsCandidates ==
    pc \in {"loop", "exit", "crashed"} => apk_counter = Len(visited)

\* the call is leaving through the budget exit of lines 317-320
AtBudgetExit == pc = "exit" /\ apk_counter >= max_results

\* C7 (as claimed): at the budget exit the call returns the entry that exists
\* for this query, and Absent only when there is none.
C7_BudgetExitReturnsEntry == AtBudgetExit => (retval = {} <=> inserted = {})

\* C7 (amended): at the budget exit the call returns Absent, also when it
\* inserted a primary-only entry, which stays in the registry.
C7_BudgetExitReturnsAbsent ==
    AtBudgetExit => (retval = {} /\ inserted \subseteq DOMAIN captured_results)

\* C7 witness: the budget is exhausted by a call that inserted an entry.
C7_Witness == AtBudgetExit /\ inserted # {} /\ retval = {}

\* C8: the cursor is 0 whenever control has left search_and_download, and at
\* the start of every query.
C8_CursorZeroOutside ==
    pc \in {"returned", "crashed", "main", "done"} => apk_counter = 0

\* C10: the call returns an entry exactly when it set a fallback URL during
\* this call, and the loop is left only at the budget, at the end of the
\* listing or after setting a fallback: never after inserting a primary.
C10_ReturnIffCompleted ==
    pc \in {"exit", "returned"} =>
        /\ retval # {} <=> completed # {}
        /\ \/ completed # {}
           \/ result = NoResult
           \/ BudgetReached(apk_counter, max_results)
           \/ pc = "returned"

\* C10 witness: a call that inserted a primary-only entry went on scanning and
\* later left with Absent.
C10_Witness ==
    /\ pc = "exit"
    /\ inserted # {}
    /\ Len(visited) >= 2
    /\ retval = {}

----------------------------------------------------------------------------
(* Properties of the resolution chain and of the listing *)

\* a request the chain issued was answered by a transport or HTTP failure
FetchFailed(a) ==
    \/ a.detail = "error"
    \/ VariantHop(a) /\ a.detail_again = "error"
    \/ VariantPageAsked(a) /\ a.variant = "error"
    \/ DownloadPageAsked(a) /\ a.download = "error"

\* a page the chain fetched lacks the element the chain looks for
ParseMiss(a) ==
    \/ VariantHop(a) /\ a.detail_again = "no_variant"
    \/ VariantPageAsked(a) /\ a.variant = "no_button"
    \/ DownloadPageAsked(a) /\ a.download = "no_link"

InLog(e) == \E i \in 1..Len(net_log) : net_log[i] = e

\* C11: a failed fetch anywhere in the chain makes get_download_link return
\* None for that candidate only: no exception leaves it, and the orchestrator
\* then advances the cursor by one and goes back to the top of the loop with
\* the registry and the run over the queries untouched.
C11_FetchFailureIsUnresolved ==
    /\ [](\A a \in chain_answer :
            FetchFailed(a) => (pc \in {"merge", "loop"} /\ download_link = None))
    /\ [][(pc = "merge" /\ \E a \in chain_answer : FetchFailed(a)) =>
            /\ pc' = "loop"
            /\ apk_counter' = apk_counter + 1
            /\ captured_results' = captured_results
            /\ qi' = qi]_vars

\* C11 witness: after a failed fetch the loop is back at its top with the
\* cursor advanced.
C11_Witness ==
    /\ pc = "loop"
    /\ apk_counter >= 1
    /\ \E a \in chain_answer : FetchFailed(a)

\* the candidate before the cursor went through the chain and was unresolved
LastUnresolved ==
    /\ chained # << >>
    /\ chained[Len(chained)] = apk_counter - 1
    /\ download_link = None

C13_MalformedRowSkipped ==
    (/\ pc = "exit"
     /\ listing = "ok"
     /\ result = NoResult
     /\ apk_counter < max_results)
        => ~ \E j \in (apk_counter + 2)..Len(cached_search) :
                /\ j - 1 < max_results
                /\ _parse_app_row(cached_search[j]) # NoResult

\* C14: within one call the listing page is requested at most once; the
\* candidates after the first are parsed from the cached markup.
C14_ListingRequestedOnce == listing_requests <= 1

\* C14 witness: a second candidate has been read while the call has issued a
\* single listing request.
C14_Witness ==
    /\ pc = "searched"
    /\ apk_counter >= 1
    /\ result # NoResult
    /\ listing_requests = 1

\* C15: every request of the current iteration (listing, detail, variant,
\* download page) is immediately preceded by a rate-limit wait.
C15_WaitBeforeEveryRequest ==
    \A i \in 1..Len(net_log) :
        net_log[i] \in Requests => (i > 1 /\ net_log[i - 1] = "wait")

\* C15 witness: an iteration that requested the listing, the detail page
\* twice, the variant page and the download page.
C15_Witness ==
    /\ pc = "merge"
    /\ InLog("listing")
    /\ InLog("variant")
    /\ InLog("download:variant_button")

\* C16: with a qualifying button on the detail page the chain requests the
\* download page of that button and never a variant page; without one, with a
\* variant link and a button on the variant page, it requests the variant
\* page and then the download page of the variant page's button.
C16_ChainRouting ==
    \A a \in chain_answer :
        /\ QualifyingButton(a) =>
              /\ ~InLog("variant")
              /\ InLog("download:detail_button")
              /\ ~InLog("download:variant_button")
        /\ (~QualifyingButton(a) /\ VariantPageAsked(a) /\ a.variant = "button") =>
              /\ \E i, j \in 1..Len(net_log) :
                    /\ i < j
                    /\ net_log[i] = "variant"
                    /\ net_log[j] = "download:variant_button"
              /\ ~InLog("download:detail_button")

\* C16 witness: a chain resolved a link through the variant hop.
C16_Witness ==
    /\ pc = "merge"
    /\ download_link \in URLs
    /\ \E a \in chain_answer : ~QualifyingButton(a) /\ VariantPageAsked(a)

\* C17: every parse miss of the chain (no button and no variant link on the
\* detail page, no button on the variant page, no terminal link on the final
\* page) makes get_download_link return None, and no exception leaves it.
C17_ParseMissIsUnresolved ==
    \A a \in chain_answer :
        ParseMiss(a) => (pc \in {"merge", "loop"} /\ download_link = None)

\* C17 witness: the detail page had neither a qualifying button nor a variant
\* link and the chain returned None.
C17_Witness ==
    /\ pc = "merge"
    /\ download_link = None
    /\ \E a \in chain_answer : VariantHop(a) /\ a.detail_again = "no_variant"

----------------------------------------------------------------------------
(* Properties of the title functions *)

\* C18: canonical-key normalization is idempotent: normalizing a canonical key
\* gives that key again, also for titles ending in several version-like words.
C18_NormalizeIdempotent ==
    /\ npc # "raised_again"
    /\ npc = "renormalized" => norm2 = norm1

\* a word of letters, digits, dots and hyphens with at least one digit
HasDigitWord(tok) ==
    /\ \A i \in 1..Len(tok) : IsVersionBody(tok[i])
    /\ \E i \in 1..Len(tok) : tok[i] \in Digits

\* the canonical key as C19 describes it
ClaimedKey(stripped) ==
    LET parts == Split(stripped) IN
    ToLower(Join(IF HasDigitWord(parts[Len(parts)])
                 THEN SubSeq(parts, 1, Len(parts) - 1)
                 ELSE parts))

\* C19: the canonical key is the title without its last word iff that word
\* (letters, digits, dots, hyphens) contains a digit, the remaining words
\* joined by single blanks and lower-cased; so "App 2" gives "app".
C19_StripsIffDigit ==
    npc \in {"normalized", "renormalized", "raised_again"} =>
        norm1 = ClaimedKey(Strip(typed))

\* one or more digit groups separated by single dots
IsDottedDigits(tok) ==
    /\ Len(tok) >= 1
    /\ \A k \in 1..Len(tok) : tok[k] \in Digits \cup {"."}
    /\ tok[1] \in Digits /\ tok[Len(tok)] \in Digits
    /\ \A k \in 1..(Len(tok) - 1) : ~(tok[k] = "." /\ tok[k + 1] = ".")

\* the version as C20 describes it
ClaimedVersion(stripped) ==
    LET parts == Split(stripped) IN
    IF IsDottedDigits(parts[Len(parts)]) THEN parts[Len(parts)] ELSE << >>

\* C20: the version is the title's last word iff that word is one or more
\* digit groups separated by single dots ("6.4.2", and also "12"); otherwise
\* it is absent.
C20_VersionIffDottedDigits ==
    npc \in {"normalized", "renormalized", "raised_again"} =>
        ver = ClaimedVersion(Strip(typed))

\* two or more digit groups separated by single dots: digits and dots only,
\* at least one dot, and every dot stands between two digits
IsTwoOrMoreGroups(tok) ==
    /\ \A k \in 1..Len(tok) : tok[k] \in Digits \cup {"."}
    /\ \E k \in 1..Len(tok) : tok[k] = "."
    /\ \A k \in 1..Len(tok) :
          tok[k] = "." => /\ 1 < k /\ k < Len(tok)
                          /\ tok[k - 1] \in Digits
                          /\ tok[k + 1] \in Digits

LastWord(stripped) == Split(stripped)[Len(Split(stripped))]

\* C20, amended: the version is the title's last word iff that word is two or
\* more digit groups separated by single dots ("6.4.2", "1.0"); a single
\* group such as "12" and every other last word give an absent version.
C20_VersionIffTwoGroups ==
    npc \in {"normalized", "renormalized", "raised_again"} =>
        ver = IF IsTwoOrMoreGroups(LastWord(Strip(typed)))
              THEN LastWord(Strip(typed)) ELSE << >>

\* "App 12" has been parsed and its version is absent
C20_Witness ==
    /\ npc = "normalized"
    /\ typed = App12
    /\ ver = << >>

----------------------------------------------------------------------------
(* Properties of the query loop of main *)

\* C21: a call that ends without a complete entry returns Absent, main
\* appends nothing to the output list for it, and the next query is started
\* with the registry as that call left it.
C21_AbsentAndContinue ==
    /\ [](pc \in {"exit", "returned"} /\ completed = {} => retval = {})
    /\ [][pc = "returned" /\ retval = {} =>
            /\ pc' = "main"
            /\ all_apk_downloads' = all_apk_downloads
            /\ captured_results' = captured_results]_vars
    /\ [][pc = "main" /\ qi < NumQueries =>
            /\ pc' = "loop"
            /\ qi' = qi + 1
            /\ captured_results' = captured_results]_vars

\* the second query has started after a first query that exhausted its budget
\* on an inserted primary: the entry is in the registry, the output is empty
C21_Witness ==
    /\ pc = "loop"
    /\ qi = 2
    /\ DOMAIN captured_results # {}
    /\ all_apk_downloads = << >>

----------------------------------------------------------------------------
(* The downloader stage: the two download loops of main.py *)

MaxEntries == 2     \* entries handed to a download loop

\* an entry as the loops read it: its two URLs, either of which may be None
DownloadEntries ==
    [direct_download_url : {None, "P"}, fallback_download_url : {None, "F"}]

EntryLists ==
    UNION { [1..n -> DownloadEntries] : n \in 0..MaxEntries }

\* main.py:315-322, one entry of the direct download after scraping: the URLs
\* handed to Downloader.download_file, in order
DirectAttempts(apk, primary_ok) ==
    IF Truthy(apk.direct_download_url)
    THEN << apk.direct_download_url >>
    ELSE << >>

\* main.py:162-184, one entry of download_apks_from_file
FileAttempts(apk_info, primary_ok) ==
    IF Truthy(apk_info.direct_download_url)
    THEN IF ~primary_ok /\ Truthy(apk_info.fallback_download_url)
         THEN << apk_info.direct_download_url, apk_info.fallback_download_url >>
         ELSE << apk_info.direct_download_url >>
    ELSE << >>

\* one of the two loops is given a list of entries
DlInit ==
    /\ RunInit
    /\ max_results = 0
    /\ NormIdle
    /\ SbIdle
    /\ ClIdle
    /\ dl_path \in {"direct", "file"}
    /\ apk_data \in EntryLists
    /\ dl_i = 0
    /\ dl_log = << >>

\* main.py:314-322: one iteration of the direct download loop; download_file
\* raises or not, and the except clause swallows what it raises
DirectDownload ==
    /\ dl_path = "direct"
    /\ dl_i < Len(apk_data)
    /\ \E primary_ok \in BOOLEAN :
          dl_log' = Append(dl_log,
                       [primary_ok |-> primary_ok,
                        attempts |-> DirectAttempts(apk_data[dl_i + 1], primary_ok)])
    /\ dl_i' = dl_i + 1
    /\ UNCHANGED << dl_path, apk_data >>
    /\ UNCHANGED exceptDl

\* main.py:162-184: one iteration of the loop of download_apks_from_file; both
\* download_file calls sit in their own try/except
FileDownload ==
    /\ dl_path = "file"
    /\ dl_i < Len(apk_data)
    /\ \E primary_ok \in BOOLEAN :
          dl_log' = Append(dl_log,
                       [primary_ok |-> primary_ok,
                        attempts |-> FileAttempts(apk_data[dl_i + 1], primary_ok)])
    /\ dl_i' = dl_i + 1
    /\ UNCHANGED << dl_path, apk_data >>
    /\ UNCHANGED exceptDl

DlNext ==
    \/ DirectDownload
    \/ FileDownload

DlSpec == DlInit /\ [][DlNext]_vars

----------------------------------------------------------------------------
(* QuerySnowballer.expand (src/query_snowballer/snowballer.py) *)

MaxSeeds == 2           \* longest list of seed queries
MaxSnowDepth == 2       \* largest max_depth the snowballer is built with
MaxSnowQueries == 4     \* largest max_queries the snowballer is built with

\* the queries the provider knows, the seeds among them
SnowQueries == {"a", "b", "c"}

\* QuerySnowballer.per_query_limit: the provider is handed this limit and
\* answers with at most that many related queries
per_query_limit == 2

SeedLists == UNION { [1..n -> SnowQueries] : n \in 0..MaxSeeds }

RelatedLists == UNION { [1..n -> SnowQueries] : n \in 0..per_query_limit }

\* what provider.get_related_queries does for one query: it raises, or it
\* returns a list of related queries (repetitions, the query itself and
\* queries already seen included)
ProviderAnswers ==
    { [raised |-> TRUE, related |-> << >>] } \cup
    { [raised |-> FALSE, related |-> r] : r \in RelatedLists }

\* list(visited): the elements of the set, each once, in some order
ListsOf(S) ==
    { l \in [1..Cardinality(S) -> S] : \A i, j \in 1..Cardinality(S) : l[i] = l[j] => i = j }

\* lines 91-93: the related queries not yet visited are queued one level
\* deeper; `r not in queue` compares a string with (query, depth) pairs and
\* so never keeps anything out
RECURSIVE Enqueue(_, _, _, _)
Enqueue(q, related, seen, depth) ==
    IF related = << >> THEN q
    ELSE Enqueue(IF Head(related) \notin seen
                 THEN Append(q, << Head(related), depth + 1 >>)
                 ELSE q,
                 Tail(related), seen, depth)

\* a limit test that lets one more query in
LimitReachedLate(seen, limit) == Cardinality(seen) > limit

\* line 80: len(visited) >= self.max_queries
LimitReached(seen, limit) == Cardinality(seen) >= limit

\* a depth test that lets one more level in
TooDeepLate(depth, limit) == depth > limit + 1

\* line 77: depth > self.max_depth
TooDeep(depth, limit) == depth > limit

\* an except clause that gives up on what is still queued
QueueDropped(rest) == << >>

\* lines 87-89: the except clause prints and continues with the next queued
\* query, so the rest of the queue stays as it is
QueueAfterError(rest) == rest

\* lines 66-69: expand is called with a list of seeds
SbInit ==
    /\ RunInit
    /\ max_results = 0
    /\ NormIdle
    /\ DlIdle
    /\ ClIdle
    /\ seed_queries \in SeedLists
    /\ max_depth \in 0..MaxSnowDepth
    /\ max_queries \in 1..MaxSnowQueries
    /\ sb_visited = {}
    /\ queue = [i \in 1..Len(seed_queries) |-> << seed_queries[i], 0 >>]
    /\ level_left = 0
    /\ last_run_size = 0
    /\ sb_pc = "while"
    /\ expanded = << >>
    /\ asked = << >>
    /\ failed = {}

\* lines 71-73 and 103: the test of the while loop and the start of a level
LevelStart ==
    /\ sb_pc = "while"
    /\ IF queue = << >>
       THEN /\ sb_pc' = "done"
            /\ expanded' \in ListsOf(sb_visited)
            /\ UNCHANGED << level_left, last_run_size >>
       ELSE /\ sb_pc' = "for"
            /\ level_left' = Len(queue)
            /\ last_run_size' = Cardinality(sb_visited)
            /\ UNCHANGED expanded
    /\ UNCHANGED << seed_queries, max_depth, max_queries, sb_visited, queue,
                    asked, failed >>
    /\ UNCHANGED exceptSb

\* lines 75-96: one iteration of the for loop over the level
PopQuery ==
    /\ sb_pc = "for"
    /\ level_left > 0
    /\ LET query == Head(queue)[1]
           depth == Head(queue)[2]
       IN
       IF TooDeep(depth, max_depth) \/ query \in sb_visited
       THEN /\ queue' = Tail(queue)
            /\ level_left' = level_left - 1
            /\ UNCHANGED << sb_visited, sb_pc, expanded, asked, failed >>
       ELSE /\ sb_visited' = sb_visited \cup {query}
            /\ IF LimitReached(sb_visited', max_queries)
               THEN /\ sb_pc' = "done"
                    /\ expanded' \in ListsOf(sb_visited')
                    /\ queue' = Tail(queue)
                    /\ UNCHANGED << level_left, asked, failed >>
               ELSE /\ asked' = Append(asked, << query, depth >>)
                    /\ level_left' = level_left - 1
                    /\ UNCHANGED << sb_pc, expanded >>
                    /\ \E answer \in ProviderAnswers :
                          IF answer.raised
                          THEN /\ failed' = failed \cup {query}
                               /\ queue' = QueueAfterError(Tail(queue))
                          ELSE /\ queue' = Enqueue(Tail(queue), answer.related,
                                                   sb_visited', depth)
                               /\ UNCHANGED failed
    /\ UNCHANGED << seed_queries, max_depth, max_queries, last_run_size >>
    /\ UNCHANGED exceptSb

\* lines 99-103: the convergence test at the end of a level
LevelEnd ==
    /\ sb_pc = "for"
    /\ level_left = 0
    /\ IF Cardinality(sb_visited) = last_run_size
       THEN /\ sb_pc' = "done"
            /\ expanded' \in ListsOf(sb_visited)
       ELSE /\ sb_pc' = "while"
            /\ UNCHANGED expanded
    /\ UNCHANGED << seed_queries, max_depth, max_queries, sb_visited, queue,
                    level_left, last_run_size, asked, failed >>
    /\ UNCHANGED exceptSb

SbNext ==
    \/ LevelStart
    \/ PopQuery
    \/ LevelEnd

SbSpec == SbInit /\ [][SbNext]_vars

\* expand is a sequential procedure: its next statement is always executed
SbFairSpec == SbSpec /\ WF_vars(SbNext)

----------------------------------------------------------------------------
(* Properties of QuerySnowballer.expand *)

Range(l) == { l[i] : i \in 1..Len(l) }

NoRepeats(l) == \A i, j \in 1..Len(l) : l[i] = l[j] => i = j

Queued(q) ==
    \E i \in 1..Len(queue) : queue[i][1] = q /\ ~TooDeep(queue[i][2], max_depth)

\* C26: a provider error on one query does not abort expand: the failing
\* query stays in the result, the loop goes on with the queue as it was,
\* every query still queued is visited unless the query limit is reached
\* first, and expand returns.
C26_ProviderErrorContained ==
    /\ [](failed \subseteq sb_visited)
    /\ [](sb_pc = "done" => failed \subseteq Range(expanded))
    /\ [][failed' # failed => sb_pc' = "for" /\ queue' = Tail(queue)]_vars
    /\ \A q \in SnowQueries :
          (failed # {} /\ Queued(q)) ~>
              (q \in sb_visited \/ LimitReached(sb_visited, max_queries))
    /\ <>(sb_pc = "done")

\* expand has returned after a provider error on one query and a successful
\* provider call on a query popped after it
C26_Witness ==
    /\ sb_pc = "done"
    /\ \E i, j \in 1..Len(asked) :
          /\ i < j
          /\ asked[i][1] \in failed
          /\ asked[j][1] \notin failed
    /\ failed \subseteq Range(expanded)

----------------------------------------------------------------------------
(* Properties of the calls as a whole, of the chain's requests and of the
   registry across the run *)

\* C28: no exception leaves search_and_download: whatever the site answers
\* and whatever the registry holds, also for a candidate whose key has a
\* primary-only entry, control never leaves a call other than by returning.
C28_NoExceptionEscapes == pc # "crashed"

\* the pages the chain of the current iteration requested, in order
ChainRequests ==
    SelectSeq(net_log, LAMBDA e : e \in Requests \ {"listing"})

\* C29: a chain requests each page on its path once: detail, variant and
\* download page on the variant path, detail and download page on the direct
\* path.
C29_EachPageOnce ==
    pc = "merge" =>
        \A a \in chain_answer :
            /\ QualifyingButton(a) =>
                  ChainRequests = << "detail", "download:detail_button" >>
            /\ (VariantPageAsked(a) /\ a.variant = "button") =>
                  ChainRequests = << "detail", "variant", "download:variant_button" >>
            /\ \A i, j \in 1..Len(ChainRequests) :
                  ChainRequests[i] = ChainRequests[j] => i = j

\* an entry as the registry holds it, without the fallback URL
Frozen(entry) == [entry EXCEPT !.fallback_download_url = None]

\* C30: across the run the registry only grows and primary URLs are written
\* once: no step removes a key, replaces the entry under a key or changes its
\* primary URL; a step inserts a new key or sets a fallback URL that was unset.
C30_RegistryGrowsOnly ==
    [][\A k \in DOMAIN captured_results :
          /\ k \in DOMAIN captured_results'
          /\ Frozen(captured_results'[k]) = Frozen(captured_results[k])
          /\ captured_results'[k].direct_download_url =
                captured_results[k].direct_download_url
          /\ captured_results'[k].fallback_download_url #
                captured_results[k].fallback_download_url =>
                ~Truthy(captured_results[k].fallback_download_url)]_vars

\* a later query has added a second key to the registry an earlier query
\* had put its entry into
C30_Witness ==
    /\ qi = 2
    /\ Cardinality(DOMAIN captured_results) = 2
    /\ Cardinality(inserted) = 1

\* C33: a query reads no candidate from an earlier query's cached listing:
\* a candidate this call works on was parsed from the listing this call
\* fetched, and after a failed listing fetch the call works on no candidate.
C33_NoStaleListing ==
    /\ result # NoResult => listing = "ok"
    /\ visited # << >> => listing = "ok"
    /\ (pc = "searched" /\ result # NoResult) =>
          /\ apk_counter < Len(cached_search)
          /\ result = _parse_app_row(cached_search[apk_counter + 1])
    /\ listing = "failed" => (result = NoResult /\ visited = << >> /\ chained = << >>)

\* the listing fetch of the second query failed while the scraper still held
\* the first query's listing with a well-formed first row, and the call has
\* no candidate
C33_Witness ==
    /\ qi = 2
    /\ pc = "searched"
    /\ listing = "failed"
    /\ Len(cached_search) >= 1
    /\ _parse_app_row(cached_search[1]) # NoResult
    /\ result = NoResult

----------------------------------------------------------------------------
(* The cleanup step: Cleaner (src/downloaders/cleaner.py) and main.py:332-344 *)

\* a file name as os.path.splitext sees it: the stem, as a list of its
\* parts, and the extension
FileName(stem, ext) == [stem |-> stem, ext |-> ext]

\* the files the download directory may hold when the cleanup starts
InitialNames ==
    { FileName(<<"x">>, ".apkm"), FileName(<<"x">>, ".apk"),
      FileName(<<"y">>, ".apkm"), FileName(<<"n">>, ".txt") }

\* what a file of that name may be: a zip archive with base.apk inside, a zip
\* archive without it, something that is no zip archive, an ordinary APK, or
\* any other file
KindsOf(f) ==
    IF f.ext = ".apkm" THEN {"bundle", "no_base", "not_zip"}
    ELSE IF f.ext = ".apk" THEN {"bundle", "plain"}
    ELSE {"other"}

AllKinds == {"bundle", "no_base", "not_zip", "plain", "other"}

\* the directories the cleanup may be started on; every file holds its own
\* content
InitialDirectories ==
    UNION { { [f \in S |-> [holds |-> k[f], of |-> f]] :
                k \in { kk \in [S -> AllKinds] : \A f \in S : kk[f] \in KindsOf(f) } } :
            S \in SUBSET InitialNames }

\* Cleaner._is_apkm_container (lines 11-26): a zip archive that lists base.apk
_is_apkm_container(dir, f) == dir[f].holds = "bundle"

\* lines 41-42 and 56: f"{base_name}_base.apk"
NewApkName(f) == FileName(f.stem \o <<"_base">>, ".apk")

\* line 45: the folder _temp_<base_name>
TempDir(f) == <<"_temp_">> \o f.stem

\* how _extract_base_apk_from_apkm can end on a file of that kind: makedirs,
\* extractall or copy2 raises, base.apk is missing, os.remove raises, or all
\* of it succeeds
Outcomes(kind) ==
    IF kind = "bundle"
    THEN {"makedirs_fails", "extract_fails", "copy_fails", "remove_fails", "ok"}
    ELSE IF kind = "no_base"
    THEN {"makedirs_fails", "extract_fails", "no_base"}
    ELSE {"makedirs_fails", "extract_fails"}

\* a directory with file f written (or overwritten) with content c
WithFile(dir, f, c) ==
    [g \in DOMAIN dir \cup {f} |-> IF g = f THEN c ELSE dir[g]]

\* a directory without file f
WithoutFile(dir, f) == [g \in DOMAIN dir \ {f} |-> dir[g]]

\* an extraction that removes the container once copying was attempted
ContainerRemovedEarly(outcome) == outcome \in {"ok", "copy_fails"}

\* line 66: os.remove(apkm_path) is reached and succeeds
ContainerRemoved(outcome) == outcome = "ok"

\* line 60: shutil.copy2 has written <name>_base.apk
BaseCopied(outcome) == outcome \in {"ok", "remove_fails"}

\* Cleaner._extract_base_apk_from_apkm (lines 40-80): the directory it leaves
ExtractedDirectory(dir, f, outcome) ==
    LET copied == IF BaseCopied(outcome)
                  THEN WithFile(dir, NewApkName(f), [holds |-> "base.apk", of |-> f])
                  ELSE dir
    IN  IF ContainerRemoved(outcome) THEN WithoutFile(copied, f) ELSE copied

\* lines 63, 72 and 78-79: whichever way the extraction ends, the temporary
\* folder it made is removed again (rmtree itself is taken to succeed)
TempAfter(temps, f, outcome) == temps \ {TempDir(f)}

\* main.py:332-340 is about to ask for confirmation
ClInit ==
    /\ RunInit
    /\ max_results = 0
    /\ NormIdle
    /\ DlIdle
    /\ SbIdle
    /\ cl_pc = "confirm"
    /\ is_dir \in BOOLEAN
    /\ directory \in InitialDirectories
    /\ ~is_dir => DOMAIN directory = {}
    /\ apkm_files = << >>
    /\ other_files = << >>
    /\ temp_dirs = {}
    /\ outcomes = [f \in {} |-> ""]

\* main.py:340-344: the cleanup runs only after "y" or "yes"
Confirm ==
    /\ cl_pc = "confirm"
    /\ \E response \in {"y", "yes", "no"} :
          cl_pc' = IF response \in {"y", "yes"} THEN "scan" ELSE "cancelled"
    /\ UNCHANGED << is_dir, directory, apkm_files, other_files, temp_dirs, outcomes >>
    /\ UNCHANGED exceptCl

\* process_directory, lines 91-118: a missing directory ends it; otherwise
\* the files are sorted into containers and others, in the order listdir
\* happens to give
Scan ==
    /\ cl_pc = "scan"
    /\ IF ~is_dir
       THEN /\ cl_pc' = "done"
            /\ UNCHANGED << apkm_files, other_files, outcomes >>
       ELSE LET containers ==
                    { f \in DOMAIN directory :
                        \/ f.ext = ".apkm"
                        \/ f.ext = ".apk" /\ _is_apkm_container(directory, f) }
                others ==
                    { f \in DOMAIN directory : f.ext \notin {".apk", ".apkm"} }
            IN  /\ cl_pc' = "extract"
                /\ apkm_files' \in ListsOf(containers)
                /\ other_files' \in ListsOf(others)
                /\ outcomes' = [f \in containers |-> "pending"]
    /\ UNCHANGED << is_dir, directory, temp_dirs >>
    /\ UNCHANGED exceptCl

\* lines 124-134: the next container is handed to
\* _extract_base_apk_from_apkm, or step 2 is over
ExtractNext ==
    /\ cl_pc = "extract"
    /\ IF apkm_files = << >>
       THEN /\ cl_pc' = "others"
            /\ UNCHANGED << directory, apkm_files, temp_dirs, outcomes >>
       ELSE LET apkm_path == Head(apkm_files) IN
            /\ \E outcome \in Outcomes(directory[apkm_path].holds) :
                  /\ directory' = ExtractedDirectory(directory, apkm_path, outcome)
                  /\ temp_dirs' = TempAfter(temp_dirs, apkm_path, outcome)
                  /\ outcomes' = [outcomes EXCEPT ![apkm_path] = outcome]
            /\ apkm_files' = Tail(apkm_files)
            /\ UNCHANGED cl_pc
    /\ UNCHANGED << is_dir, other_files >>
    /\ UNCHANGED exceptCl

\* lines 136-144: the next file that is no APK is removed, unless os.remove
\* raises; or step 3 is over
RemoveOther ==
    /\ cl_pc = "others"
    /\ IF other_files = << >>
       THEN /\ cl_pc' = "cleanup"
            /\ UNCHANGED << directory, other_files >>
       ELSE /\ \E removed \in BOOLEAN :
                  directory' = IF removed
                               THEN WithoutFile(directory, Head(other_files))
                               ELSE directory
            /\ other_files' = Tail(other_files)
            /\ UNCHANGED cl_pc
    /\ UNCHANGED << is_dir, apkm_files, temp_dirs, outcomes >>
    /\ UNCHANGED exceptCl

\* lines 146-174: the summary, and temporary folders still there are removed
\* where rmtree does not raise
FinalCleanup ==
    /\ cl_pc = "cleanup"
    /\ cl_pc' = "done"
    /\ temp_dirs' \in SUBSET temp_dirs
    /\ UNCHANGED << is_dir, directory, apkm_files, other_files, outcomes >>
    /\ UNCHANGED exceptCl

ClNext ==
    \/ Confirm
    \/ Scan
    \/ ExtractNext
    \/ RemoveOther
    \/ FinalCleanup

ClSpec == ClInit /\ [][ClNext]_vars

----------------------------------------------------------------------------
(* Properties of the Cleaner *)

\* the base.apk of container f lies in the directory under <name>_base.apk
BaseInPlace(dir, f) ==
    /\ NewApkName(f) \in DOMAIN dir
    /\ dir[NewApkName(f)] = [holds |-> "base.apk", of |-> f]

\* the extraction of f ended with a failed makedirs, extraction or copy, or
\* without a base.apk
ExtractionFailed(f) ==
    outcomes[f] \in {"makedirs_fails", "extract_fails", "no_base", "copy_fails"}

\* A container leaves the directory only in a step that puts its base.apk
\* there under <name>_base.apk.
ContainerDeletedAfterCopy ==
    [][\A f \in DOMAIN outcomes :
          (f \in DOMAIN directory /\ f \notin DOMAIN directory') =>
              BaseInPlace(directory', f)]_vars

\* After a failed extraction or copy the container is in place and its
\* temporary folder is gone.
FailureKeepsContainer ==
    \A f \in DOMAIN outcomes :
        ExtractionFailed(f) => (f \in DOMAIN directory /\ TempDir(f) \notin temp_dirs)

\* C34: the Cleaner never loses a package: of every container it found,
\* either the container itself is in the directory or its base.apk is there
\* as <name>_base.apk, the container having been deleted only after that
\* copy; and after a failed extraction or copy the container is in place and
\* its temporary folder is removed.
C34_NeverLosesPackage ==
    \A f \in DOMAIN outcomes :
        /\ f \in DOMAIN directory \/ BaseInPlace(directory, f)
        /\ ExtractionFailed(f) =>
              (f \in DOMAIN directory /\ TempDir(f) \notin temp_dirs)

====
